---------------------------- MODULE Spec2Model ----------------------------
(***************************************************************************)
(* Model of monitor.py: a polling loop that counts the entries of FOLDER,  *)
(* prints a progress line whenever the count exceeds the last reported     *)
(* count, and stops when the count reaches TARGET.                         *)
(*                                                                         *)
(* Clock readings are integers in ticks of 1/TicksPerSecond seconds (the   *)
(* 0.2 s sleep is one tick).  Quotients of times (avg_time_per_item, eta)  *)
(* are exact fractions <<num, den>> of seconds with den > 0, in lowest     *)
(* terms; binary floating point rounding is not modelled.                  *)
(***************************************************************************)
EXTENDS Integers, Sequences, FiniteSets

VARIABLES
    pc,                 \* "init", "poll", "sleep", "done", "failed"; "format"; "calc", "reported"
    TARGET,             \* int(sys.argv[2])
    dir,                \* environment: number of entries of FOLDER
    readable,           \* environment: os.listdir(FOLDER) succeeds
    clock,              \* environment: value time.time() would return
    start_count, start_time, last_count, last_time,
    current_count,
    now, newly_generated, time_spent, total_generated, total_time,
    avg_time_per_item, remaining, eta,
    output,             \* lines printed to standard output
    exit_code,          \* Running, ExitOK or ExitError
    iter,               \* history: loop iterations started (saturates at MaxIter)
    sleeps,             \* history: time.sleep calls made (saturates at MaxIter)
    max_seen,           \* history: largest count any listing returned
    stepwise,           \* history: every listing so far equalled the previous one or exceeded it by 1
    peak,               \* history: "pending" once FOLDER held >= TARGET entries between two
                        \* listings, "missed" once a listing after that returned less
    seconds, formatted  \* argument and result of a format_duration call

vars == <<pc, TARGET, dir, readable, clock, start_count, start_time, last_count,
          last_time, current_count, now, newly_generated, time_spent,
          total_generated, total_time, avg_time_per_item, remaining, eta,
          output, exit_code, iter, sleeps, max_seen, stepwise, peak,
          seconds, formatted>>

progVars == <<start_count, start_time, last_count, last_time>>

reportLocals == <<now, newly_generated, time_spent, total_generated,
                  total_time, avg_time_per_item, remaining, eta>>

-----------------------------------------------------------------------------
(* Bounds of the model *)

MaxCount == 4       \* the directory holds 0..MaxCount entries
MaxTarget == 4      \* TARGET ranges over -MaxNegTarget..MaxTarget
MaxNegTarget == 1
MaxClock == 4       \* horizon of the clock, in ticks; later readings read MaxClock
MaxIter == 3        \* the iteration and sleep counters saturate here
MaxSeconds == 90000 \* format_duration is applied to 0..MaxSeconds
MaxCalcCount == 5   \* the report computation is applied to counts 0..MaxCalcCount,
MaxCalcTarget == 10 \* targets -MaxNegTarget..MaxCalcTarget
MaxCalcTicks == 50  \* and clock readings up to MaxCalcTicks after start_time
MaxCalcStart == 1   \* with start_time in 0..MaxCalcStart

(* Program constants *)

TicksPerSecond == 5 \* one tick is the 0.2 s of time.sleep(0.2)
SleepTicks == 1

\* exit_code: the process runs, left the loop by break (status 0), or died
\* of an uncaught exception (status 1)
Running == "running"
ExitOK == "exit 0"
ExitError == "exit 1"

\* a name that is not bound yet holds 0 (numbers), <<0, 1>> (fractions), "" (strings)
Unset == 0
UnsetFrac == <<0, 1>>

Counts == 0..MaxCount
Targets == (0 - MaxNegTarget)..MaxTarget

-----------------------------------------------------------------------------
(* Arithmetic helpers *)

Abs(x) == IF x < 0 THEN -x ELSE x

Min(a, b) == IF a < b THEN a ELSE b

Max(a, b) == IF a > b THEN a ELSE b

RECURSIVE GCD(_, _)
GCD(a, b) == IF b = 0 THEN a ELSE GCD(b, a % b)

\* the fraction n/d (d # 0) in lowest terms with a positive denominator
Frac(n, d) ==
    LET g == GCD(Abs(n), Abs(d))
        s == IF d < 0 THEN -1 ELSE 1
    IN  <<(s * n) \div g, (s * d) \div g>>

\* the value that stands for a raised ZeroDivisionError
ZeroDivision == <<0, 0>>

\* n / d of Python: raises when d is 0
Divide(n, d) == IF d = 0 THEN ZeroDivision ELSE Frac(n, d)

\* x * k for a fraction x and an integer k; a raised error propagates
Times(x, k) == IF x = ZeroDivision THEN ZeroDivision ELSE Frac(x[1] * k, x[2])

\* int(x) for x = n/d, d > 0: truncation toward zero
Trunc(n, d) == IF n >= 0 THEN n \div d ELSE -((-n) \div d)

Digits == <<"0", "1", "2", "3", "4", "5", "6", "7", "8", "9">>

RECURSIVE NatToStr(_)
NatToStr(k) ==
    IF k < 10 THEN Digits[k + 1]
    ELSE NatToStr(k \div 10) \o Digits[(k % 10) + 1]

\* str(k) of a Python int
IntToStr(k) == IF k < 0 THEN "-" \o NatToStr(-k) ELSE NatToStr(k)

-----------------------------------------------------------------------------
(* format_duration(seconds) for seconds = n/d with d > 0 *)

format_duration_Le(n, d) ==
    IF n <= 60 * d THEN
        IntToStr(Trunc(n, d)) \o "s"
    ELSE IF n <= 3600 * d THEN
        LET minutes == n \div (60 * d)
            secs == (n % (60 * d)) \div d
        IN  IntToStr(minutes) \o "m " \o IntToStr(secs) \o "s"
    ELSE IF n <= 86400 * d THEN
        LET hours == n \div (3600 * d)
            minutes == (n % (3600 * d)) \div (60 * d)
        IN  IntToStr(hours) \o "h " \o IntToStr(minutes) \o "m"
    ELSE
        LET days == n \div (86400 * d)
            hours == (n % (86400 * d)) \div (3600 * d)
        IN  IntToStr(days) \o "d " \o IntToStr(hours) \o "h"

format_duration(n, d) ==
    IF n < 60 * d THEN
        IntToStr(Trunc(n, d)) \o "s"
    ELSE IF n < 3600 * d THEN
        LET minutes == n \div (60 * d)
            secs == (n % (60 * d)) \div d
        IN  IntToStr(minutes) \o "m " \o IntToStr(secs) \o "s"
    ELSE IF n < 86400 * d THEN
        LET hours == n \div (3600 * d)
            minutes == (n % (3600 * d)) \div (60 * d)
        IN  IntToStr(hours) \o "h " \o IntToStr(minutes) \o "m"
    ELSE
        LET days == n \div (86400 * d)
            hours == (n % (86400 * d)) \div (3600 * d)
        IN  IntToStr(days) \o "d " \o IntToStr(hours) \o "h"


\* f"{x:.2f}" for x = n/d with d > 0 (round half to even on the exact value)
Fmt2f(n, d) ==
    LET a == 100 * Abs(n)
        q == a \div d
        r == a % d
        h == IF 2 * r > d \/ (2 * r = d /\ q % 2 = 1) THEN q + 1 ELSE q
        frac == h % 100
    IN  (IF n < 0 THEN "-" ELSE "") \o NatToStr(h \div 100) \o "."
            \o Digits[(frac \div 10) + 1] \o Digits[(frac % 10) + 1]

-----------------------------------------------------------------------------
(* The loop body's tests *)

\* line 34: if current_count > last_count
ShouldReport_Ge(c, lc) == c >= lc

ShouldReport_Ne(c, lc) == c # lc

ShouldReport(c, lc) == c > lc

\* line 56: if current_count >= TARGET
TargetReached_Gt(c, target) == c > target

TargetReached(c, target) == c >= target

\* line 56 stands at the indentation of the loop body: the test is made
\* whether or not the report branch ran in this iteration
TerminationCheck_Nested(c, target, reported) ==
    reported /\ TargetReached(c, target)

TerminationCheck(c, target, reported) == TargetReached(c, target)

\* line 59 stands at the indentation of the loop body as well: an iteration
\* that does not break goes to the sleep whether or not it reported
AfterIteration_IdleOnly(reported) == IF reported THEN "poll" ELSE "sleep"

AfterIteration(reported) == "sleep"

(* Lines 35-44: the values computed for a report of count c read at clock  *)
(* value t.  Times are in ticks; avg and eta are fractions of seconds.     *)
ReportCalc_RemainingFlipped(c, t, sc, st, lc, lt, target) ==
    LET ng == c - lc
        ts == t - lt
        tg == c - sc
        tt == t - st
        avg == IF tg # 0 THEN Divide(tt, TicksPerSecond * tg) ELSE <<0, 1>>
        rem == c - target
    IN  [now |-> t, newly_generated |-> ng, time_spent |-> ts,
         total_generated |-> tg, total_time |-> tt,
         avg_time_per_item |-> avg, remaining |-> rem,
         eta |-> Times(avg, rem)]

\* line 42 without its guard
ReportCalc_Unguarded(c, t, sc, st, lc, lt, target) ==
    LET ng == c - lc
        ts == t - lt
        tg == c - sc
        tt == t - st
        avg == Divide(tt, TicksPerSecond * tg)
        rem == target - c
    IN  [now |-> t, newly_generated |-> ng, time_spent |-> ts,
         total_generated |-> tg, total_time |-> tt,
         avg_time_per_item |-> avg, remaining |-> rem,
         eta |-> Times(avg, rem)]

\* line 42 with the rate of the last interval instead of the rate since start
ReportCalc_Delta(c, t, sc, st, lc, lt, target) ==
    LET ng == c - lc
        ts == t - lt
        tg == c - sc
        tt == t - st
        avg == IF ng # 0 THEN Divide(ts, TicksPerSecond * ng) ELSE <<0, 1>>
        rem == target - c
    IN  [now |-> t, newly_generated |-> ng, time_spent |-> ts,
         total_generated |-> tg, total_time |-> tt,
         avg_time_per_item |-> avg, remaining |-> rem,
         eta |-> Times(avg, rem)]

ReportCalc(c, t, sc, st, lc, lt, target) ==
    LET ng == c - lc
        ts == t - lt
        tg == c - sc
        tt == t - st
        avg == IF tg # 0 THEN Divide(tt, TicksPerSecond * tg) ELSE <<0, 1>>
        rem == target - c
    IN  [now |-> t, newly_generated |-> ng, time_spent |-> ts,
         total_generated |-> tg, total_time |-> tt,
         avg_time_per_item |-> avg, remaining |-> rem,
         eta |-> Times(avg, rem)]

\* lines 46-51: the printed line, by field
ReportLine_TotalGenerated(c, target, r) ==
    [count |-> r.total_generated, target |-> target,
     elapsed |-> format_duration(r.total_time, TicksPerSecond),
     eta |-> format_duration(r.eta[1], r.eta[2]),
     avg |-> Fmt2f(r.avg_time_per_item[1], r.avg_time_per_item[2])]

ReportLine(c, target, r) ==
    [count |-> c, target |-> target,
     elapsed |-> format_duration(r.total_time, TicksPerSecond),
     eta |-> format_duration(r.eta[1], r.eta[2]),
     avg |-> Fmt2f(r.avg_time_per_item[1], r.avg_time_per_item[2])]

\* lines 53-54: last_count = current_count; last_time = now
ReportUpdate_Accumulate(c, r) ==
    /\ last_count' = last_count + c
    /\ last_time' = r.now

ReportUpdate_CountOnly(c, r) ==
    /\ last_count' = c
    /\ last_time' = last_time

ReportUpdate(c, r) ==
    /\ last_count' = c
    /\ last_time' = r.now

\* clock reading after at least k more ticks, up to the horizon
Later(t, k) == Min(t + k, MaxClock)

Bump(n) == Min(n + 1, MaxIter)

-----------------------------------------------------------------------------
(* Initial state: arguments parsed (lines 22-23), nothing else executed *)

Init ==
    /\ pc = "init"
    /\ TARGET \in Targets
    /\ dir \in Counts
    /\ readable \in BOOLEAN
    /\ clock = 0
    /\ start_count = Unset /\ start_time = Unset
    /\ last_count = Unset /\ last_time = Unset
    /\ current_count = Unset
    /\ now = Unset /\ newly_generated = Unset /\ time_spent = Unset
    /\ total_generated = Unset /\ total_time = Unset
    /\ avg_time_per_item = UnsetFrac /\ remaining = Unset /\ eta = UnsetFrac
    /\ output = <<>>
    /\ exit_code = Running
    /\ iter = 0 /\ sleeps = 0
    /\ max_seen = Unset
    /\ stepwise = TRUE
    /\ peak = "none"
    /\ seconds = Unset /\ formatted = ""

(* Lines 26-29: the first listing and clock reading *)
Start ==
    /\ pc = "init"
    /\ readable
    /\ start_count' = dir
    /\ start_time' = clock
    /\ last_count' = dir
    /\ last_time' = clock
    /\ max_seen' = dir
    /\ pc' = "poll"
    /\ UNCHANGED <<TARGET, dir, readable, clock, current_count, reportLocals, output,
                   exit_code, iter, sleeps, stepwise, peak, seconds, formatted>>

(* Lines 26 and 32: os.listdir raises; nothing catches it *)
ListFail_Retry ==
    /\ pc \in {"init", "poll"}
    /\ ~readable
    /\ pc' = IF pc = "init" THEN "failed" ELSE "sleep"
    /\ exit_code' = IF pc = "init" THEN ExitError ELSE exit_code
    /\ iter' = IF pc = "poll" THEN Bump(iter) ELSE iter
    /\ UNCHANGED <<TARGET, dir, readable, clock, progVars, current_count,
                   reportLocals, output, sleeps, max_seen, stepwise, peak, seconds,
                   formatted>>

ListFail ==
    /\ pc \in {"init", "poll"}
    /\ ~readable
    /\ pc' = "failed"
    /\ exit_code' = ExitError
    /\ iter' = IF pc = "poll" THEN Bump(iter) ELSE iter
    /\ UNCHANGED <<TARGET, dir, readable, clock, progVars, current_count, reportLocals,
                   output, sleeps, max_seen, stepwise, peak, seconds, formatted>>

(* Lines 32-57: one loop iteration up to the break or the sleep call *)
Poll ==
    /\ pc = "poll"
    /\ readable
    /\ LET c == dir
           prev == IF iter = 0 THEN start_count ELSE current_count
           r == ReportCalc(c, clock, start_count, start_time, last_count,
                           last_time, TARGET)
       IN  /\ current_count' = c
           /\ IF ShouldReport(c, last_count)
              THEN /\ now' = r.now
                   /\ newly_generated' = r.newly_generated
                   /\ time_spent' = r.time_spent
                   /\ total_generated' = r.total_generated
                   /\ total_time' = r.total_time
                   /\ avg_time_per_item' = r.avg_time_per_item
                   /\ remaining' = r.remaining
                   /\ eta' = r.eta
                   /\ output' = Append(output, ReportLine(c, TARGET, r))
                   /\ ReportUpdate(c, r)
              ELSE UNCHANGED <<reportLocals, output, last_count, last_time>>
           /\ IF TerminationCheck(c, TARGET, ShouldReport(c, last_count))
              THEN pc' = "done" /\ exit_code' = ExitOK
              ELSE /\ pc' = AfterIteration(ShouldReport(c, last_count))
                   /\ UNCHANGED exit_code
           /\ max_seen' = Max(max_seen, c)
           /\ stepwise' = (stepwise /\ c \in {prev, prev + 1})
           /\ peak' = IF peak = "pending" /\ c < TARGET THEN "missed" ELSE peak
    /\ iter' = Bump(iter)
    /\ UNCHANGED <<TARGET, dir, readable, clock, start_count, start_time, sleeps,
                   seconds, formatted>>

(* Line 59: time.sleep(0.2) returns, at least 0.2 s later *)
Sleep ==
    /\ pc = "sleep"
    /\ pc' = "poll"
    /\ clock' = Later(clock, SleepTicks)
    /\ sleeps' = Bump(sleeps)
    /\ UNCHANGED <<TARGET, dir, readable, progVars, current_count, reportLocals, output,
                   exit_code, iter, max_seen, stepwise, peak, seconds, formatted>>

(* Environment: entries are added to or removed from FOLDER *)
DirChange ==
    /\ pc \in {"init", "poll", "sleep"}
    /\ \E d \in Counts \ {dir} :
          /\ dir' = d
          /\ peak' = IF pc # "init" /\ d >= TARGET /\ peak = "none"
                     THEN "pending" ELSE peak
    /\ UNCHANGED <<pc, TARGET, readable, clock, progVars, current_count, reportLocals,
                   output, exit_code, iter, sleeps, max_seen, stepwise,
                   seconds, formatted>>

(* Environment: FOLDER is removed or loses its read permission, or is      *)
(* restored                                                                *)
DirAccess ==
    /\ pc \in {"init", "poll", "sleep"}
    /\ readable' = ~readable
    /\ UNCHANGED <<pc, TARGET, dir, clock, progVars, current_count,
                   reportLocals, output, exit_code, iter, sleeps, max_seen,
                   stepwise, peak, seconds, formatted>>

(* Environment: time passes *)
Tick ==
    /\ pc \in {"init", "poll", "sleep"}
    /\ clock < MaxClock
    /\ clock' = clock + 1
    /\ UNCHANGED <<pc, TARGET, dir, readable, progVars, current_count, reportLocals,
                   output, exit_code, iter, sleeps, max_seen, stepwise, peak,
                   seconds, formatted>>

Next == Start \/ ListFail \/ Poll \/ Sleep \/ DirChange \/ DirAccess \/ Tick

Spec == Init /\ [][Next]_vars

(* The interpreter keeps running and each time.sleep returns: the first    *)
(* listing, the loop body and the sleep are taken whenever they stay       *)
(* enabled.  PollTaken is Poll told by its effect on pc: within Next, a    *)
(* step from "poll" with a readable FOLDER to "sleep" or "done" is a Poll  *)
(* step, and it is enabled exactly when Poll is.                           *)
PollTaken == pc = "poll" /\ readable /\ pc' \in {"sleep", "done"}

SpecLive == Spec /\ WF_pc(Start) /\ WF_pc(PollTaken) /\ WF_pc(Sleep)

-----------------------------------------------------------------------------
(* format_duration on its own: one call on each integer 0..MaxSeconds *)

InitFormat ==
    /\ pc = "format"
    /\ seconds \in 0..MaxSeconds
    /\ formatted = ""
    /\ TARGET = 0 /\ dir = 0 /\ readable = TRUE /\ clock = 0
    /\ start_count = Unset /\ start_time = Unset
    /\ last_count = Unset /\ last_time = Unset
    /\ current_count = Unset
    /\ now = Unset /\ newly_generated = Unset /\ time_spent = Unset
    /\ total_generated = Unset /\ total_time = Unset
    /\ avg_time_per_item = UnsetFrac /\ remaining = Unset /\ eta = UnsetFrac
    /\ output = <<>>
    /\ exit_code = Running
    /\ iter = 0 /\ sleeps = 0
    /\ max_seen = Unset
    /\ stepwise = TRUE
    /\ peak = "none"

FormatCall ==
    /\ pc = "format"
    /\ formatted = ""
    /\ formatted' = format_duration(seconds, 1)
    /\ UNCHANGED <<pc, TARGET, dir, readable, clock, progVars, current_count,
                   reportLocals, output, exit_code, iter, sleeps, max_seen,
                   stepwise, peak, seconds>>

NextFormat == FormatCall

SpecFormat == InitFormat /\ [][NextFormat]_vars

(* The report computation on its own (lines 35-54): one evaluation on each *)
(* combination of counts start_count <= last_count <= current_count, which *)
(* includes total_generated = 0, and of clock readings.                    *)

InitCalc ==
    /\ pc = "calc"
    /\ TARGET \in (0 - MaxNegTarget)..MaxCalcTarget
    /\ start_count \in 0..MaxCalcCount
    /\ last_count \in start_count..MaxCalcCount
    /\ current_count \in last_count..MaxCalcCount
    /\ dir = current_count
    /\ readable = TRUE
    /\ start_time \in 0..MaxCalcStart
    /\ clock \in start_time..(start_time + MaxCalcTicks)
    /\ last_time \in {start_time, clock}
    /\ now = Unset /\ newly_generated = Unset /\ time_spent = Unset
    /\ total_generated = Unset /\ total_time = Unset
    /\ avg_time_per_item = UnsetFrac /\ remaining = Unset /\ eta = UnsetFrac
    /\ output = <<>>
    /\ exit_code = Running
    /\ iter = 0 /\ sleeps = 0
    /\ max_seen = current_count
    /\ stepwise = TRUE
    /\ peak = "none"
    /\ seconds = Unset /\ formatted = ""

CalcCall ==
    /\ pc = "calc"
    /\ LET r == ReportCalc(current_count, clock, start_count, start_time,
                           last_count, last_time, TARGET)
       IN  IF r.avg_time_per_item = ZeroDivision
           THEN /\ pc' = "failed"
                /\ exit_code' = ExitError
                /\ UNCHANGED <<reportLocals, output, last_count, last_time>>
           ELSE /\ now' = r.now
                /\ newly_generated' = r.newly_generated
                /\ time_spent' = r.time_spent
                /\ total_generated' = r.total_generated
                /\ total_time' = r.total_time
                /\ avg_time_per_item' = r.avg_time_per_item
                /\ remaining' = r.remaining
                /\ eta' = r.eta
                /\ output' = Append(output, ReportLine(current_count, TARGET, r))
                /\ ReportUpdate(current_count, r)
                /\ pc' = "reported"
                /\ UNCHANGED exit_code
    /\ UNCHANGED <<TARGET, dir, readable, clock, start_count, start_time,
                   current_count, iter, sleeps, max_seen, stepwise, peak, seconds,
                   formatted>>

NextCalc == CalcCall

SpecCalc == InitCalc /\ [][NextCalc]_vars

TypeOK ==
    /\ pc \in {"init", "poll", "sleep", "done", "failed", "format"}
    /\ TARGET \in Targets
    /\ dir \in Counts
    /\ readable \in BOOLEAN
    /\ clock \in 0..MaxClock
    /\ exit_code \in {Running, ExitOK, ExitError}

-----------------------------------------------------------------------------
(* Vocabulary of the properties *)

\* the loop is running (the Running state of the state machine)
Looping == pc \in {"poll", "sleep"}

\* this step is a loop iteration whose directory listing succeeded; its
\* count is current_count'
PollStep == pc = "poll" /\ pc' # "poll" /\ readable

\* the count returned by the most recent directory listing
MostRecentListing == IF iter = 0 THEN start_count ELSE current_count

LastLine == output[Len(output)]

-----------------------------------------------------------------------------
(* C1, as stated: the loop leaves the Running state in an iteration if and *)
(* only if that iteration's listing returned a count >= TARGET; there is   *)
(* no other termination path, in particular no error exit.                 *)
C1_OnlyTargetTerminates ==
    [][(Looping /\ ~Looping') <=> (PollStep /\ current_count' >= TARGET)]_vars

(* C1, amended: an iteration whose listing succeeds leaves the loop if and *)
(* only if its count is >= TARGET, and then with exit status 0; the only   *)
(* other way out of the loop is an iteration whose listing raises, which   *)
(* ends the process with a non-zero status.  A sleep never ends the loop.  *)
C1_TerminationPaths ==
    [][/\ PollStep =>
            /\ current_count' = dir
            /\ (pc' = "done") <=> (current_count' >= TARGET)
            /\ (pc' = "done") => exit_code' = ExitOK
       /\ (Looping /\ ~Looping') =>
            /\ pc = "poll"
            /\ \/ PollStep /\ pc' = "done"
               \/ ~readable /\ pc' = "failed" /\ exit_code' = ExitError]_vars

C1_Witness ==
    /\ pc = "done" /\ exit_code = ExitOK
    /\ iter = 2 /\ sleeps = 1
    /\ current_count >= TARGET

(* C2, as stated: in every reachable state LastCount is <= the count       *)
(* returned by the most recent directory listing.                          *)
C2_LastCountLeListing == last_count <= MostRecentListing

(* C2, amended: LastCount is <= the largest count any directory listing    *)
(* has returned so far, and so <= the most recent listing's count whenever *)
(* that count is not below an earlier listing's.                           *)
C2_LastCountLeMaxListing ==
    /\ last_count <= max_seen
    /\ MostRecentListing >= max_seen => last_count <= MostRecentListing

C2_Witness ==
    /\ pc = "sleep"
    /\ Len(output) >= 1
    /\ current_count < last_count
    /\ last_count = max_seen

(* C3: with a clock whose readings never decrease, last_count never        *)
(* decreases from one step to the next and last_time never decreases from  *)
(* one step to the next, whatever the listings return.                     *)
C3_Monotonic ==
    [][pc # "init" =>
          (last_count' >= last_count /\ last_time' >= last_time)]_vars

C3_Witness ==
    /\ Len(output) >= 2
    /\ current_count < last_count
    /\ last_count > start_count
    /\ last_time > start_time

(* C4: an iteration emits exactly one report line when its listing count   *)
(* is greater than last_count and none otherwise; the line carries the     *)
(* iteration's count and TARGET, and the iteration sets last_count to the  *)
(* count and last_time to the clock value read for the report.             *)
C4_OneReportPerIncrease ==
    [][IF PollStep /\ current_count' > last_count
       THEN /\ output' = Append(output, output'[Len(output')])
            /\ output'[Len(output')].count = current_count'
            /\ output'[Len(output')].target = TARGET
            /\ last_count' = current_count'
            /\ now' = clock
            /\ last_time' = now'
       ELSE output' = output]_vars

C4_Witness ==
    /\ Len(output) >= 2
    /\ start_count > 0
    /\ LastLine.count = current_count
    /\ last_count = current_count
    /\ last_time = now /\ now > start_time

(* C5: an iteration whose listing count equals last_count emits no report  *)
(* and changes none of start_count, start_time, last_count, last_time and  *)
(* TARGET; it only goes on to the sleep, or ends the loop if the count is  *)
(* >= TARGET.                                                              *)
C5_NoOpPoll ==
    [][(PollStep /\ current_count' = last_count) =>
          /\ output' = output
          /\ UNCHANGED <<start_count, start_time, last_count, last_time,
                         TARGET>>
          /\ UNCHANGED reportLocals
          /\ pc' = IF current_count' >= TARGET THEN "done" ELSE "sleep"]_vars

C5_Witness ==
    /\ pc = "sleep"
    /\ iter = 1
    /\ output = <<>>
    /\ current_count = last_count

(* C6: the termination check is made in every iteration, whether or not    *)
(* the iteration emitted a report; in particular, if the directory holds   *)
(* >= TARGET entries at start and the first poll sees the same count, the  *)
(* loop ends in its first iteration with no line printed and no sleep.     *)
C6_CheckEveryIteration ==
    [][/\ (PollStep /\ output' = output /\ current_count' >= TARGET) =>
            pc' = "done"
       /\ (PollStep /\ iter = 0 /\ start_count >= TARGET
               /\ current_count' = start_count) =>
            /\ pc' = "done" /\ exit_code' = ExitOK
            /\ iter' = 1
            /\ output' = <<>>
            /\ sleeps' = 0]_vars

C6_Witness ==
    /\ pc = "done"
    /\ iter = 1
    /\ start_count >= TARGET /\ current_count = start_count
    /\ output = <<>>
    /\ sleeps = 0

(* C7: an iteration whose listing count is greater than last_count and     *)
(* greater than TARGET emits a report with remaining = TARGET - count < 0  *)
(* and an ETA that is not positive, and ends the loop; with a count equal  *)
(* to TARGET the report has remaining = 0 and the loop ends as well.       *)
C7_Overshoot ==
    [][(PollStep /\ current_count' > last_count /\ current_count' >= TARGET)
        =>
          /\ Len(output') = Len(output) + 1
          /\ output'[Len(output')].count = current_count'
          /\ remaining' = TARGET - current_count'
          /\ (current_count' > TARGET) => (remaining' < 0)
          /\ (current_count' = TARGET) => (remaining' = 0 /\ eta'[1] = 0)
          /\ eta'[1] <= 0 /\ eta'[2] > 0
          /\ output'[Len(output')].eta = format_duration(eta'[1], eta'[2])
          /\ pc' = "done"]_vars

C7_Witness ==
    /\ pc = "done"
    /\ Len(output) >= 1
    /\ LastLine.count = current_count
    /\ current_count > TARGET + 1
    /\ remaining < 0
    /\ eta[1] < 0

(* C8: when the directory starts with fewer than TARGET entries and every  *)
(* listing returns the previous count or one more, then at the end of the  *)
(* loop exactly TARGET - start_count lines have been printed, the last one *)
(* shows TARGET/TARGET, and nothing is printed after the loop has ended.   *)
C8_EndToEnd ==
    /\ []((pc = "done" /\ stepwise /\ start_count < TARGET) =>
            /\ Len(output) = TARGET - start_count
            /\ LastLine.count = TARGET
            /\ LastLine.target = TARGET
            /\ \A i \in 1..Len(output) : output[i].count = start_count + i)
    /\ [][pc = "done" => (pc' = "done" /\ output' = output)]_vars

C8_Witness ==
    /\ pc = "done"
    /\ stepwise
    /\ start_count = 2 /\ TARGET = 4
    /\ Len(output) = 2
    /\ LastLine.count = 4 /\ LastLine.target = 4

(* C9: a directory listing that raises, at start or in an iteration, ends  *)
(* the process at once with a non-zero status: the listing is not retried, *)
(* no line is printed in or after the failing step, and last_count and     *)
(* last_time keep their values.                                            *)
C9_ListingErrorFatal ==
    [][/\ (pc \in {"init", "poll"} /\ ~readable /\ pc' # pc) =>
            /\ pc' = "failed"
            /\ exit_code' = ExitError
            /\ output' = output
            /\ UNCHANGED <<last_count, last_time>>
       /\ pc = "failed" =>
            /\ pc' = "failed"
            /\ output' = output
            /\ UNCHANGED <<last_count, last_time, exit_code>>]_vars

C9_Witness ==
    /\ pc = "failed"
    /\ exit_code = ExitError
    /\ iter >= 2
    /\ Len(output) >= 1
    /\ ~readable

(* C10: for every integer s >= 0, format_duration(s) is "{s}s" below 60,   *)
(* "{s div 60}m {s mod 60}s" below 3600, "{s div 3600}h {(s mod 3600) div  *)
(* 60}m" below 86400 and "{s div 86400}d {(s mod 86400) div 3600}h" from   *)
(* 86400 on; in particular at 0, 59, 60, 125, 3599, 3600, 86399 and 86400. *)
C10_FormatDuration ==
    formatted # "" =>
        /\ seconds < 60 => formatted = IntToStr(seconds) \o "s"
        /\ (60 <= seconds /\ seconds < 3600) =>
              formatted = IntToStr(seconds \div 60) \o "m "
                              \o IntToStr(seconds % 60) \o "s"
        /\ (3600 <= seconds /\ seconds < 86400) =>
              formatted = IntToStr(seconds \div 3600) \o "h "
                              \o IntToStr((seconds % 3600) \div 60) \o "m"
        /\ seconds >= 86400 =>
              formatted = IntToStr(seconds \div 86400) \o "d "
                              \o IntToStr((seconds % 86400) \div 3600) \o "h"
        /\ seconds = 0 => formatted = "0s"
        /\ seconds = 59 => formatted = "59s"
        /\ seconds = 60 => formatted = "1m 0s"
        /\ seconds = 125 => formatted = "2m 5s"
        /\ seconds = 3599 => formatted = "59m 59s"
        /\ seconds = 3600 => formatted = "1h 0m"
        /\ seconds = 86399 => formatted = "23h 59m"
        /\ seconds = 86400 => formatted = "1d 0h"

C10_Witness == seconds = 86400 /\ formatted = "1d 0h"

(* C11: no report computation raises a division fault; the average of a   *)
(* report is total_time / total_generated when total_generated > 0 and 0   *)
(* when total_generated = 0.                                               *)
C11_AverageGuarded ==
    pc # "calc" =>
        /\ pc = "reported" /\ exit_code = Running
        /\ avg_time_per_item # ZeroDivision /\ avg_time_per_item[2] > 0
        /\ total_generated = current_count - start_count
        /\ total_time = clock - start_time
        /\ total_generated > 0 =>
              avg_time_per_item[1] * TicksPerSecond * total_generated
                  = total_time * avg_time_per_item[2]
        /\ total_generated = 0 => avg_time_per_item[1] = 0
        /\ Len(output) = 1

C11_Witness ==
    /\ pc = "reported"
    /\ current_count = start_count
    /\ clock > start_time
    /\ avg_time_per_item = <<0, 1>>
    /\ output[1].avg = "0.00"

(* C12: the average and the ETA of a report come from the totals since     *)
(* start, not from the interval since the previous report: average =       *)
(* (now - start_time) / (current_count - start_count) and ETA = average *  *)
(* (TARGET - current_count); with start_count 0, TARGET 10 and count 5     *)
(* seen 10 seconds after start the average is 2 and the ETA 10, whatever   *)
(* last_count and last_time are.                                           *)
C12_AverageSinceStart ==
    (pc = "reported" /\ current_count > start_count) =>
        LET tg == current_count - start_count
            tt == clock - start_time
        IN  /\ avg_time_per_item[2] > 0 /\ eta[2] > 0
            /\ avg_time_per_item[1] * TicksPerSecond * tg
                   = tt * avg_time_per_item[2]
            /\ eta[1] * TicksPerSecond * tg
                   = tt * (TARGET - current_count) * eta[2]
            /\ (start_count = 0 /\ TARGET = 10 /\ current_count = 5
                    /\ tt = 10 * TicksPerSecond) =>
                  /\ avg_time_per_item = <<2, 1>>
                  /\ eta = <<10, 1>>
                  /\ output[1].avg = "2.00"
                  /\ output[1].eta = "10s"
                  /\ output[1].elapsed = "10s"

C12_Witness ==
    /\ pc = "reported"
    /\ start_count = 0 /\ TARGET = 10 /\ current_count = 5
    /\ clock - start_time = 10 * TicksPerSecond
    /\ last_count = 5 /\ newly_generated = 1
    /\ time_spent = 0
    /\ output[1].avg = "2.00"

(* C13: every iteration whose listing count is < TARGET ends with the      *)
(* sleep, whether or not it emitted a report; the iteration that ends the  *)
(* loop does not sleep; so exactly one sleep lies between two consecutive  *)
(* listings of the loop.                                                   *)
C13_SleepEveryIteration ==
    /\ [][/\ (pc = "poll" /\ readable /\ (pc' # "poll" \/ output' # output))
               => /\ pc' = IF current_count' < TARGET THEN "sleep" ELSE "done"
                  /\ sleeps' = sleeps
          /\ (pc = "sleep" /\ pc' # "sleep")
               => /\ pc' = "poll"
                  /\ sleeps' = Bump(sleeps)
                  /\ iter' = iter /\ current_count' = current_count
          /\ sleeps' # sleeps => pc = "sleep"
          /\ iter' # iter => pc = "poll"]_vars
    /\ [](pc = "poll" => sleeps = iter)
    /\ []((pc \in {"sleep", "done"} /\ iter < MaxIter) => sleeps = iter - 1)

C13_Witness ==
    /\ pc = "poll"
    /\ iter = 2 /\ sleeps = 2
    /\ Len(output) = 1

(* C14: last_count and last_time are assigned together and only by an      *)
(* iteration that emits a report; in every other step both keep their      *)
(* values.  start_count, start_time and TARGET never change after the      *)
(* initialisation.                                                         *)
C14_Lockstep ==
    [][pc # "init" =>
          /\ UNCHANGED <<start_count, start_time, TARGET>>
          /\ (last_count' # last_count \/ last_time' # last_time) =>
                (PollStep /\ Len(output') = Len(output) + 1)
          /\ Len(output') # Len(output) =>
                /\ last_count' = current_count' /\ last_count' # last_count
                /\ last_time' = now' /\ now' = clock
          /\ Len(output') = Len(output) =>
                UNCHANGED <<last_count, last_time>>]_vars

C14_Witness ==
    /\ pc = "sleep"
    /\ Len(output) >= 2
    /\ start_time > 0
    /\ last_count = LastLine.count
    /\ last_time = now /\ last_time > start_time

(* C15: after the initialisation and after every iteration last_count is   *)
(* the largest of start_count and the counts of all listings so far; an    *)
(* iteration whose count is not above that maximum, such as one that sees  *)
(* the directory grow back after it shrank, emits no report and changes    *)
(* none of the program's values.                                           *)
C15_HighWaterMark ==
    /\ [](pc # "init" => last_count = max_seen)
    /\ [][(PollStep /\ current_count' <= max_seen) =>
             /\ output' = output
             /\ UNCHANGED <<progVars, reportLocals>>]_vars

C15_Witness ==
    /\ pc = "sleep"
    /\ iter >= 2
    /\ ~stepwise
    /\ output = <<>>
    /\ start_count > 0
    /\ current_count = start_count

(* C16: last_count >= start_count always, so at every report               *)
(* total_generated = count - start_count >= newly_generated = count -      *)
(* last_count >= 1: total_generated is never 0 at a report, and the        *)
(* average of a report is 0 only when total_time is 0.                     *)
C16_TotalGeneratedPositive ==
    /\ [](last_count >= start_count)
    /\ [][Len(output') > Len(output) =>
             /\ newly_generated' = current_count' - last_count
             /\ total_generated' = current_count' - start_count
             /\ newly_generated' >= 1
             /\ total_generated' >= newly_generated'
             /\ total_generated' # 0
             /\ (avg_time_per_item'[1] = 0) => (total_time' = 0)]_vars

C16_Witness ==
    /\ Len(output) >= 2
    /\ newly_generated >= 2
    /\ total_generated > newly_generated
    /\ avg_time_per_item[1] > 0

(* C17: the counts of successive report lines increase strictly; a line    *)
(* whose count is >= TARGET is the last line printed and the loop has      *)
(* ended with it, so every earlier line has TARGET - count > 0 and at most *)
(* one line has TARGET - count <= 0.                                       *)
C17_ReportsIncrease ==
    /\ [](\A i, j \in 1..Len(output) :
              i < j => output[i].count < output[j].count)
    /\ [](\A i \in 1..Len(output) :
              /\ output[i].target = TARGET
              /\ (output[i].count >= TARGET) =>
                    (i = Len(output) /\ pc = "done"))
    /\ [][pc = "done" => output' = output]_vars

C17_Witness ==
    /\ pc = "done"
    /\ Len(output) >= 3
    /\ LastLine.count > TARGET
    /\ remaining < 0

(* C18: if no listing fails and the program keeps being scheduled, then    *)
(* once FOLDER holds >= TARGET entries for good the loop eventually ends;  *)
(* and the loop ends only in an iteration whose own listing returns a      *)
(* count >= TARGET, so a count that is >= TARGET between two polls and     *)
(* below TARGET at every poll does not end it.                             *)
C18_EventuallyTerminates ==
    /\ ([]readable /\ <>[](dir >= TARGET)) => <>(pc = "done")
    /\ [][(pc' = "done" /\ pc # "done") =>
             (pc = "poll" /\ dir >= TARGET /\ current_count' = dir)]_vars
    /\ []((peak = "missed" /\ max_seen < TARGET) => pc # "done")

C18_Witness ==
    /\ pc = "sleep"
    /\ peak = "missed"
    /\ iter >= 2
    /\ max_seen < TARGET
    /\ dir < TARGET

=============================================================================
